---- MODULE Spec2Model ----
(***************************************************************************)
(* Model of the document transformation pipeline of pykello/ssg:           *)
(*   - EnvFilter::preprocess / clean_labels                                *)
(*       (src/formatted_text/pandoc_latex_filters.rs)                      *)
(*   - run_with_timeout (src/formatted_text/shell.rs)                      *)
(* Text is modelled as a sequence of atoms (short strings); the string a   *)
(* sequence stands for is the concatenation of its atoms.                  *)
(***************************************************************************)
EXTENDS Integers, Sequences, FiniteSets, TLC

VARIABLES
    \* ---- EnvFilter::preprocess ----
    input,            \* the regex matches (and text chunks) consumed so far
    result,           \* `result`: one emitted piece per consumed item
    env_stack,        \* `env_stack`
    theorem_counter,  \* `theorem_counter`
    theorem_labels,   \* `self.theorem_labels`
    equation_labels,  \* `self.equation_labels`
    ret,              \* what preprocess returned (tag None while scanning)
    \* ---- EnvFilter::clean_labels ----
    html,             \* the `input` of clean_labels
    cleaned,          \* results of the first and of the second application
    \* ---- run_with_timeout ----
    call,             \* the arguments: stdin_input, timeout, the command
    pc,               \* position of the parent in run_with_timeout
    sent,             \* bytes of stdin_input written so far by write_all
    child,            \* the spawned child process
    pipes,            \* the three pipes between parent and child
    now,              \* wall clock
    timer,            \* `start` and the wake-up time of thread::sleep
    kills,            \* number of kill() calls issued
    shret,            \* what run_with_timeout returned
    \* ---- latex_to_html ----
    lpc,              \* position in latex_to_html
    conv,             \* ordinal of this latex_to_html call
    spawned,          \* number of run_with_timeout calls of this conversion
    preprocessed,     \* `preprocessed`, the text handed to the renderer
    pandoc_output,    \* `pandoc_output`
    lret,             \* what latex_to_html returned
    \* ---- Markdown preprocessors and math extraction ----
    md,               \* the `markdown` argument
    md_out            \* what the functions under study returned for md

pvars == <<input, result, env_stack, theorem_counter, theorem_labels,
           equation_labels, ret>>
cvars == <<html, cleaned>>
svars == <<call, pc, sent, child, pipes, now, timer, kills, shret>>
lvars == <<lpc, conv, spawned, preprocessed, pandoc_output, lret>>
mvars == <<md, md_out>>
vars  == <<pvars, cvars, svars, lvars, mvars>>

(***************************************************************************)
(* Bounds                                                                  *)
(***************************************************************************)
MaxTokens == 4      \* matches scanned by preprocess on its own
MaxPiped  == 3      \* matches scanned by preprocess inside latex_to_html
MaxFirst  == 2      \* longest fragment converted before the one under study
MaxChunks == 5
MaxLines  == 5      \* lines of a Markdown input
MaxDeep   == 5      \* matches of a scan over theorem and equation tokens only
MaxGroups == 2      \* brace groups written after \begin{env}
MaxMath   == 11     \* repetitions of a math span in a Markdown input
MaxTail   == 2      \* characters after the repeated spans
MaxIn     == 3      \* longest stdin_input
MaxOut    == 3      \* longest standard output of the child
MaxErr    == 1      \* longest standard error of the child
PipeCap   == 2      \* capacity of an OS pipe buffer
Timeout   == 3      \* the caller's timeout, in clock ticks

(***************************************************************************)
(* Generic sequence helpers                                                *)
(***************************************************************************)
RECURSIVE Flatten(_)
Flatten(ss) == IF ss = <<>> THEN <<>> ELSE Head(ss) \o Flatten(Tail(ss))

(***************************************************************************)
(* Configuration: the registered theorem kinds (Config.theorems)           *)
(***************************************************************************)
TheoremList ==
    << [name |-> "theorem", label |-> "Theorem", numbered |-> TRUE],
       [name |-> "lemma",   label |-> "Lemma",   numbered |-> TRUE],
       [name |-> "remark",  label |-> "Remark",  numbered |-> FALSE] >>

\* EnvFilter::new: theorems.into_iter().map(|t| (t.name.clone(), t)).collect()
theorems ==
    [n \in {TheoremList[i].name : i \in DOMAIN TheoremList} |->
        LET last == CHOOSE i \in DOMAIN TheoremList :
                        /\ TheoremList[i].name = n
                        /\ \A j \in DOMAIN TheoremList :
                               TheoremList[j].name = n => j <= i
        IN TheoremList[last]]

\* Theorem::label
Theorem_label(t, counter) ==
    IF t.numbered THEN <<t.label, " ", ToString(counter)>>
    ELSE <<t.label>>

(***************************************************************************)
(* The matches of generate_theorem_regex, as atom sequences                *)
(***************************************************************************)
EnvNames   == {"document", "theorem", "lemma", "remark", "equation",
               "problem", "foo"}
LabelNames == {"l1", "l2"}

BeginTok(env) == <<"\\begin{", env, "}">>
ExtraGroup    == <<"{", "arg", "}">>
EndTok(env)   == <<"\\end{", env, "}">>
LabelTok(n)   == <<"\\label{", n, "}">>
RefTok(n)     == <<"\\ref{", n, "}">>
TextChunk     == <<"x">>

\* \\begin(\{[^}]+\})+  : a name group and zero or more extra groups
BeginToks == {BeginTok(e) : e \in EnvNames}
             \cup {BeginTok(e) \o ExtraGroup : e \in {"problem", "foo"}}
\* \\end\{\w+\}
EndToks   == {EndTok(e) : e \in EnvNames}
\* \\label\{[\w:-]+\}
LabelToks == {LabelTok(n) : n \in LabelNames}
\* \\ref\{[\w:-]+\}
RefToks   == {RefTok(n) : n \in LabelNames}

\* s.trim_start_matches(r"\begin{").splitn(2, '}').next()  and
\* s.trim_start_matches(r"\xxx{").trim_end_matches('}')
NameOf(s) == s[2]

None == [tag |-> "None", val |-> <<>>]

Insert(map, k, v) ==
    [x \in (DOMAIN map) \cup {k} |-> IF x = k THEN v ELSE map[x]]

(***************************************************************************)
(* EnvFilter::preprocess, one loop iteration per action                    *)
(***************************************************************************)
Scanning ==
    /\ ret.tag = "None"
    /\ Len(input) < (IF lpc = "idle" THEN MaxTokens
                     ELSE IF lpc = "labels" THEN MaxDeep
                     ELSE MaxPiped)

\* theorem_counter after a \begin{env_name}
BumpAll(env_name, counter) ==
    IF env_name \in DOMAIN theorems THEN counter + 1 ELSE counter

NextCounter(env_name, counter) ==
    IF env_name \in DOMAIN theorems /\ theorems[env_name].numbered
    THEN counter + 1 ELSE counter

\* what a \begin match pushes onto result; counter is the updated counter
BeginPieceStrip(s, counter) ==
    LET env_name == NameOf(s) IN
    IF env_name \in DOMAIN theorems
    THEN <<"\\textbf{">> \o Theorem_label(theorems[env_name], counter)
                         \o <<"}. ">>
    ELSE IF env_name = "equation"
    THEN <<"$$">> \o BeginTok("equation")
    ELSE BeginTok(env_name)

BeginPiece(s, counter) ==
    LET env_name == NameOf(s) IN
    IF env_name \in DOMAIN theorems
    THEN <<"\\textbf{">> \o Theorem_label(theorems[env_name], counter)
                         \o <<"}. ">>
    ELSE IF env_name = "equation"
    THEN <<"$$">> \o BeginTok("equation")
    ELSE IF env_name = "problem" \/ env_name = "solution"
    THEN BeginTok(env_name)
    ELSE s

ScanBegin(s) ==
    /\ Scanning
    /\ LET env_name == NameOf(s)
           counter  == NextCounter(env_name, theorem_counter)
       IN /\ env_stack' = Append(env_stack, env_name)
          /\ theorem_counter' = counter
          /\ result' = Append(result, BeginPiece(s, counter))
    /\ input' = Append(input, s)
    /\ UNCHANGED <<theorem_labels, equation_labels, ret>>

\* the value recorded in theorem_labels: format!("{}", theorem_counter)
LabelValue(env_name, counter) == ToString(counter)

ScanLabel(s) ==
    /\ Scanning
    /\ IF env_stack # <<>>
       THEN LET env_name == env_stack[Len(env_stack)]
                label    == NameOf(s)
            IN IF env_name \in DOMAIN theorems
               THEN /\ theorem_labels' =
                          Insert(theorem_labels, label,
                                 LabelValue(env_name, theorem_counter))
                    /\ UNCHANGED equation_labels
               ELSE IF env_name = "equation"
               THEN /\ equation_labels' = equation_labels \cup {label}
                    /\ UNCHANGED theorem_labels
               ELSE UNCHANGED <<theorem_labels, equation_labels>>
       ELSE UNCHANGED <<theorem_labels, equation_labels>>
    /\ result' = Append(result, s)
    /\ input' = Append(input, s)
    /\ UNCHANGED <<env_stack, theorem_counter, ret>>

Href(label, text) == <<"\\href{#", label, "}{", text, "}">>
\* variant: the reference is written in its native form at once
EqRefNative(label) == <<"\\ref{", label, "}">>

\* format!("(EQREFBEGIN){}(EQREFEND)", label)
EqRef(label)      == <<"(EQREFBEGIN)", label, "(EQREFEND)">>

\* what a \ref match pushes onto result
RefPieceEquationFirst(s, tlabels, elabels) ==
    LET label == NameOf(s) IN
    IF label \in elabels THEN EqRef(label)
    ELSE IF label \in DOMAIN tlabels THEN Href(label, tlabels[label])
    ELSE s

RefPieceEager(s, tlabels, elabels) ==
    LET label == NameOf(s) IN
    IF label \in DOMAIN tlabels THEN Href(label, tlabels[label])
    ELSE EqRef(label)

RefPiece(s, tlabels, elabels) ==
    LET label == NameOf(s) IN
    IF label \in DOMAIN tlabels THEN Href(label, tlabels[label])
    ELSE IF label \in elabels THEN EqRef(label)
    ELSE s

ScanRef(s) ==
    /\ Scanning
    /\ result' = Append(result, RefPiece(s, theorem_labels, equation_labels))
    /\ input' = Append(input, s)
    /\ UNCHANGED <<env_stack, theorem_counter, theorem_labels,
                   equation_labels, ret>>

\* if env_name != last_env
MismatchBelowRoot(env_name, last_env) ==
    env_name # last_env /\ last_env # "document"

Mismatch(env_name, last_env) == env_name # last_env

MismatchError(last_env, env_name) ==
    [tag |-> "Err",
     val |-> <<"Mismatched environment tags: \\begin{", last_env,
               "} and \\end{", env_name, "}">>]

\* what a matching \end pushes onto result
\* variant: the closing delimiter is written before \end{equation}
EndPieceDollarFirst(s) ==
    LET env_name == NameOf(s) IN
    IF env_name \in DOMAIN theorems THEN <<"\n">>
    ELSE IF env_name = "equation" THEN <<"$$">> \o EndTok("equation")
    ELSE s

\* what an \end match pushes onto result
EndPiece(s) ==
    LET env_name == NameOf(s) IN
    IF env_name \in DOMAIN theorems THEN <<"\n">>
    ELSE IF env_name = "equation" THEN EndTok("equation") \o <<"$$">>
    ELSE s

ScanEnd(s) ==
    /\ Scanning
    /\ input' = Append(input, s)
    /\ UNCHANGED <<theorem_counter, theorem_labels, equation_labels>>
    /\ IF env_stack = <<>>
       THEN \* env_stack.pop().unwrap() on an empty stack
            /\ ret' = [tag |-> "Panic", val |-> <<>>]
            /\ UNCHANGED <<env_stack, result>>
       ELSE LET env_name == NameOf(s)
                last_env == env_stack[Len(env_stack)]
            IN /\ env_stack' = SubSeq(env_stack, 1, Len(env_stack) - 1)
               /\ IF Mismatch(env_name, last_env)
                  THEN /\ ret' = MismatchError(last_env, env_name)
                       /\ UNCHANGED result
                  ELSE /\ result' = Append(result, EndPiece(s))
                       /\ UNCHANGED ret

\* result.push_str(&input[processed..m.start()]) with a non-empty gap
CopyText ==
    /\ Scanning
    /\ IF input = <<>> THEN TRUE ELSE input[Len(input)] # TextChunk
    /\ input' = Append(input, TextChunk)
    /\ result' = Append(result, TextChunk)
    /\ UNCHANGED <<env_stack, theorem_counter, theorem_labels,
                   equation_labels, ret>>

\* the iterator is exhausted: Ok(result)
Finish ==
    /\ ret.tag = "None"
    /\ ret' = [tag |-> "Ok", val |-> Flatten(result)]
    /\ UNCHANGED <<input, result, env_stack, theorem_counter,
                   theorem_labels, equation_labels>>

PreInit ==
    /\ input = <<>>
    /\ result = <<>>
    /\ env_stack = <<"document">>
    /\ theorem_counter = 0
    /\ theorem_labels = [x \in {} |-> ""]
    /\ equation_labels = {}
    /\ ret = None

CleanIdle == html = <<>> /\ cleaned = <<>>
ShellIdle ==
    /\ call = <<>> /\ pc = "idle" /\ sent = 0
    /\ child = <<>> /\ pipes = <<>> /\ now = 0
    /\ timer = <<>> /\ kills = 0 /\ shret = None

LatexIdle ==
    /\ lpc = "idle" /\ conv = 1 /\ spawned = 0 /\ preprocessed = <<>>
    /\ pandoc_output = None /\ lret = None
MdIdle == md = <<>> /\ md_out = <<>>

Init == PreInit /\ CleanIdle /\ ShellIdle /\ LatexIdle /\ MdIdle

Next ==
    \/ \E s \in BeginToks : ScanBegin(s) /\ UNCHANGED <<cvars, svars, lvars, mvars>>
    \/ \E s \in LabelToks : ScanLabel(s) /\ UNCHANGED <<cvars, svars, lvars, mvars>>
    \/ \E s \in RefToks   : ScanRef(s)   /\ UNCHANGED <<cvars, svars, lvars, mvars>>
    \/ \E s \in EndToks   : ScanEnd(s)   /\ UNCHANGED <<cvars, svars, lvars, mvars>>
    \/ CopyText /\ UNCHANGED <<cvars, svars, lvars, mvars>>
    \/ Finish   /\ UNCHANGED <<cvars, svars, lvars, mvars>>

Spec == Init /\ [][Next]_vars

(***************************************************************************)
(* Properties of EnvFilter::preprocess                                     *)
(***************************************************************************)
Top(stack) == stack[Len(stack)]
Last(seq)  == seq[Len(seq)]
Names(msg) == {msg[i] : i \in DOMAIN msg}

\* C1: whenever \end{b} is scanned while the innermost open environment is
\* a with a # b, preprocess returns at that match an error whose message
\* names both a and b, and the error is final: no Ok output is produced.
C1_MismatchIsError ==
    [][ /\ \A s \in EndToks :
             ( /\ Scanning /\ input' = Append(input, s)
               /\ env_stack # <<>> /\ Top(env_stack) # NameOf(s) )
             => /\ ret'.tag = "Err"
                /\ ret'.val = <<"Mismatched environment tags: \\begin{",
                                Top(env_stack), "} and \\end{", NameOf(s),
                                "}">>
                /\ {Top(env_stack), NameOf(s)} \subseteq Names(ret'.val)
        /\ ret.tag = "Err" => ret' = ret ]_vars

C1_Witness ==
    /\ ret.tag = "Err"
    /\ Len(input) = 3
    /\ input[2] = BeginTok("theorem")
    /\ input[3] = EndTok("lemma")
    /\ {"theorem", "lemma"} \subseteq Names(ret.val)

\* the \begin names still open after toks, the sentinel root not counted
RECURSIVE OpenAfter(_)
OpenAfter(toks) ==
    IF toks = <<>> THEN <<>>
    ELSE LET before == OpenAfter(SubSeq(toks, 1, Len(toks) - 1))
             s      == Last(toks)
         IN IF s \in BeginToks THEN Append(before, NameOf(s))
            ELSE IF /\ s \in EndToks /\ before # <<>>
                    /\ Top(before) = NameOf(s)
            THEN SubSeq(before, 1, Len(before) - 1)
            ELSE before

\* C2: preprocess returns Ok only if every \begin{X} that was pushed has
\* been popped by a later \end{X} of the same name; an input that ends with
\* an environment still open fails.
C2_OkOnlyIfAllClosed ==
    ret.tag = "Ok" => OpenAfter(input) = <<>>

\* C3: in every state reached during preprocess the environment stack is
\* non-empty; the sentinel root "document" is never popped.
C3_StackNeverEmpty ==
    ret.tag = "None" => (env_stack # <<>> /\ env_stack[1] = "document")

IsNumberedBegin(s) ==
    s \in BeginToks /\ NameOf(s) \in DOMAIN theorems
                    /\ theorems[NameOf(s)].numbered

RECURSIVE NumberedBegins(_)
NumberedBegins(toks) ==
    IF toks = <<>> THEN 0
    ELSE NumberedBegins(Tail(toks))
         + (IF IsNumberedBegin(Head(toks)) THEN 1 ELSE 0)

\* C4: the theorem counter starts at 0 and is shared by all theorem kinds:
\* the k-th \begin of a numbered kind emits "<displayLabel> k", a \begin of
\* an unnumbered kind emits only its display label, and the counter always
\* equals the number of numbered-kind \begin matches consumed so far.
C4_SharedCounter ==
    /\ theorem_counter = NumberedBegins(input)
    /\ \A i \in 1..Len(result) :
          (input[i] \in BeginToks /\ NameOf(input[i]) \in DOMAIN theorems)
          => LET t == theorems[NameOf(input[i])]
                 k == NumberedBegins(SubSeq(input, 1, i))
             IN result[i] =
                  IF t.numbered
                  THEN <<"\\textbf{", t.label, " ", ToString(k), "}. ">>
                  ELSE <<"\\textbf{", t.label, "}. ">>

C4_Witness ==
    /\ Len(result) = 4
    /\ input[1] = BeginTok("theorem")
    /\ input[2] = BeginTok("remark")
    /\ input[3] = LabelTok("l1")
    /\ input[4] = BeginTok("lemma")
    /\ result[2] = <<"\\textbf{", "Remark", "}. ">>
    /\ result[4] = <<"\\textbf{", "Lemma", " ", "2", "}. ">>
    /\ theorem_counter = 2

\* C5: a \label{n} scanned while the innermost open environment is a
\* theorem kind records the counter text if the kind is numbered and the
\* kind's display label if it is unnumbered; a later \ref{n} is emitted as
\* a hyperlink to #n whose text is the recorded value.
C5_LabelValue ==
    (ret.tag = "None" /\ input # <<>>) =>
      /\ ( /\ Last(input) \in LabelToks /\ env_stack # <<>>
           /\ Top(env_stack) \in DOMAIN theorems )
         => LET t == theorems[Top(env_stack)]
                n == NameOf(Last(input))
            IN /\ n \in DOMAIN theorem_labels
               /\ theorem_labels[n] =
                     IF t.numbered THEN ToString(theorem_counter)
                     ELSE t.label
      /\ ( /\ Last(input) \in RefToks
           /\ NameOf(Last(input)) \in DOMAIN theorem_labels )
         => LET n == NameOf(Last(input))
            IN Last(result) = <<"\\href{#", n, "}{", theorem_labels[n], "}">>

\* C6: reference resolution is forward-only: a \ref{x} consumed before any
\* \label{x} is emitted unchanged, whatever is declared later in the scan.
C6_ForwardOnly ==
    \A i \in 1..Len(result) :
       ( /\ input[i] \in RefToks
         /\ \A j \in 1..(i - 1) : input[j] # LabelTok(NameOf(input[i])) )
       => result[i] = input[i]

C6_Witness ==
    /\ Len(result) = 4
    /\ input = <<BeginTok("theorem"), RefTok("l1"), LabelTok("l1"),
                 RefTok("l1")>>
    /\ result[2] = RefTok("l1")
    /\ result[4] = <<"\\href{#", "l1", "}{", "1", "}">>

\* no \begin/\end of a theorem kind, of "equation" or of a container
Plain(toks) ==
    \A i \in 1..Len(toks) :
       (toks[i] \in BeginToks \cup EndToks)
       => NameOf(toks[i]) \notin
             (DOMAIN theorems) \cup {"equation", "problem", "solution"}

\* C7 as stated: for every input without theorem, equation or container
\* environments preprocess returns Ok with output equal to the input.
C7_AlwaysPassthrough ==
    (ret.tag # "None" /\ Plain(input))
    => (ret.tag = "Ok" /\ ret.val = Flatten(input))

\* C7 amended: for every input without theorem, equation or container
\* environments, whenever preprocess returns Ok its output equals the input
\* (it returns Err instead when an \end does not match the innermost open
\* environment).
C7_PassthroughWhenOk ==
    /\ (ret.tag = "Ok" /\ Plain(input)) => ret.val = Flatten(input)
    /\ (ret.tag = "None" /\ Plain(input)) => result = input

C7_Witness ==
    /\ ret.tag = "Ok"
    /\ input = <<BeginTok("foo") \o ExtraGroup, LabelTok("l1"),
                 RefTok("l1"), EndTok("foo")>>
    /\ ret.val = Flatten(input)

(***************************************************************************)
(* EnvFilter::clean_labels                                                 *)
(* The HTML is a sequence of atoms; a name ([\w:-]+) is one atom.          *)
(***************************************************************************)
OpenTag(id, label) == <<"<span id=\"", id, "\" label=\"", label, "\">">>
Ordinal(n)         == <<"[", n, "]">>
CloseTag           == <<"</span>">>

HtmlChunks ==
    {OpenTag("l1", "l1"), OpenTag("l2", "l2"), OpenTag("l1", "l2"),
     Ordinal("l1"), CloseTag, <<" ">>}

HtmlInputs ==
    {Flatten(cs) : cs \in UNION {[1..n -> HtmlChunks] : n \in 0..MaxChunks}}

\* [\w:-]+
IsName(a) == a \in LabelNames

\* <span id="([\w:-]+)" label="([\w:-]+)">\[[\w:-]+\]</span>  matches at p
SpanMatchLen == 9
SpanMatchAt(h, p) ==
    /\ p + SpanMatchLen - 1 <= Len(h)
    /\ h[p] = "<span id=\""
    /\ IsName(h[p + 1])
    /\ h[p + 2] = "\" label=\""
    /\ IsName(h[p + 3])
    /\ h[p + 4] = "\">"
    /\ h[p + 5] = "["
    /\ IsName(h[p + 6])
    /\ h[p + 7] = "]"
    /\ h[p + 8] = "</span>"

\* format!(r#"<span id="{}" label="{}"></span>"#, id, label)
CleanedSpanUnclosed(id, label) == OpenTag(id, label)

CleanedSpan(id, label) == OpenTag(id, label) \o CloseTag

\* variant: every matched span is cleaned, recorded or not
RECURSIVE ReplaceEverySpanFrom(_, _, _)
ReplaceEverySpanFrom(h, p, tlabels) ==
    IF p > Len(h) THEN <<>>
    ELSE IF SpanMatchAt(h, p)
    THEN CleanedSpan(h[p + 1], h[p + 3])
         \o ReplaceEverySpanFrom(h, p + SpanMatchLen, tlabels)
    ELSE <<h[p]>> \o ReplaceEverySpanFrom(h, p + 1, tlabels)

\* re.replace_all(input, |caps| ...): leftmost non-overlapping matches
RECURSIVE ReplaceSpansFrom(_, _, _)
ReplaceSpansFrom(h, p, tlabels) ==
    IF p > Len(h) THEN <<>>
    ELSE IF SpanMatchAt(h, p)
    THEN (IF h[p + 1] \in DOMAIN tlabels
          THEN CleanedSpan(h[p + 1], h[p + 3])
          ELSE SubSeq(h, p, p + SpanMatchLen - 1))
         \o ReplaceSpansFrom(h, p + SpanMatchLen, tlabels)
    ELSE <<h[p]>> \o ReplaceSpansFrom(h, p + 1, tlabels)

clean_labels(h, tlabels) == ReplaceSpansFrom(h, 1, tlabels)

PreIdle ==
    /\ input = <<>> /\ result = <<>> /\ env_stack = <<>>
    /\ theorem_counter = 0 /\ equation_labels = {} /\ ret = None

CleanInit ==
    /\ html \in HtmlInputs
    /\ theorem_labels \in {[x \in {} |-> ""], [x \in {"l1"} |-> "1"]}
    /\ cleaned = <<>>
    /\ PreIdle /\ ShellIdle /\ LatexIdle /\ MdIdle

\* the first application of clean_labels
CleanFirst ==
    /\ cleaned = <<>>
    /\ cleaned' = <<clean_labels(html, theorem_labels)>>
    /\ UNCHANGED <<html, pvars, svars, lvars, mvars>>

\* clean_labels applied again, to its own output
CleanAgain ==
    /\ Len(cleaned) = 1
    /\ cleaned' = Append(cleaned, clean_labels(cleaned[1], theorem_labels))
    /\ UNCHANGED <<html, pvars, svars, lvars, mvars>>

CleanNext == CleanFirst \/ CleanAgain

SpecClean == CleanInit /\ [][CleanNext]_vars

\* C8: clean_labels is idempotent: applying it to its own output changes
\* nothing, for every HTML input and every set of recorded theorem labels.
C8_CleanIdempotent ==
    Len(cleaned) = 2 => cleaned[2] = cleaned[1]

C8_Witness ==
    /\ Len(cleaned) = 2
    /\ cleaned[1] # html
    /\ cleaned[2] = cleaned[1]
    /\ \E p \in 1..Len(html) : SpanMatchAt(html, p) /\ p > 1

(***************************************************************************)
(* run_with_timeout                                                        *)
(* The child is described by what the command does: whether it reads its   *)
(* standard input to end-of-input first, how many bytes it writes to       *)
(* standard output and standard error, whether it then exits and with      *)
(* which status, and whether its steps take no time (prompt).              *)
(***************************************************************************)
SleepLen == 2       \* thread::sleep(Duration::from_millis(10)), in ticks

Bytes(n) == [i \in 1..n |-> i]

\* reads: the child reads its standard input to end-of-input first;
\* closes: a child that does not read closes its standard input instead
Programs ==
    {p \in [reads : BOOLEAN, closes : BOOLEAN, outLen : 0..MaxOut,
            errLen : 0..MaxErr, exits : BOOLEAN, success : BOOLEAN,
            prompt : BOOLEAN] : ~(p.reads /\ p.closes)}

StdinInputs ==
    {[some |-> FALSE, bytes |-> <<>>]}
    \cup {[some |-> TRUE, bytes |-> Bytes(n)] : n \in 0..MaxIn}

ShellInit ==
    /\ call \in [stdin_input : StdinInputs, timeout : {Timeout},
                 prog : Programs]
    /\ pc = "spawn"
    /\ sent = 0
    /\ child = [state |-> "none", out |-> 0, err |-> 0, exited_at |-> -1]
    /\ pipes = [stdin |-> <<>>, stdin_open |-> TRUE, stdin_reader |-> TRUE,
                stdout |-> <<>>, stderr |-> <<>>]
    /\ now = 0
    /\ timer = 0
    /\ kills = 0
    /\ shret = None
    /\ PreIdle /\ theorem_labels = [x \in {} |-> ""] /\ CleanIdle
    /\ LatexIdle /\ MdIdle

Running(c) == c.state \in {"reading", "writing", "hung"}

\* ---- the child process ----
ChildRead ==
    /\ child.state = "reading"
    /\ IF pipes.stdin # <<>>
       THEN /\ pipes' = [pipes EXCEPT !.stdin = Tail(@)]
            /\ UNCHANGED child
       ELSE /\ ~pipes.stdin_open          \* end-of-input
            /\ child' = [child EXCEPT !.state = "writing"]
            /\ UNCHANGED pipes
    /\ UNCHANGED <<call, pc, sent, now, timer, kills, shret>>

\* the child closes its end of the standard input pipe and goes on
ChildCloseStdin ==
    /\ child.state \in {"writing", "hung"}
    /\ call.prog.closes
    /\ pipes.stdin_reader
    /\ pipes' = [pipes EXCEPT !.stdin_reader = FALSE, !.stdin = <<>>]
    /\ UNCHANGED <<call, pc, sent, child, now, timer, kills, shret>>

ChildWriteOut ==
    /\ child.state = "writing"
    /\ child.out < call.prog.outLen
    /\ Len(pipes.stdout) < PipeCap
    /\ child' = [child EXCEPT !.out = @ + 1]
    /\ pipes' = [pipes EXCEPT !.stdout = Append(@, child.out + 1)]
    /\ UNCHANGED <<call, pc, sent, now, timer, kills, shret>>

ChildWriteErr ==
    /\ child.state = "writing"
    /\ child.out = call.prog.outLen
    /\ child.err < call.prog.errLen
    /\ Len(pipes.stderr) < PipeCap
    /\ child' = [child EXCEPT !.err = @ + 1]
    /\ pipes' = [pipes EXCEPT !.stderr = Append(@, child.err + 1)]
    /\ UNCHANGED <<call, pc, sent, now, timer, kills, shret>>

ChildExit ==
    /\ child.state = "writing"
    /\ child.out = call.prog.outLen
    /\ child.err = call.prog.errLen
    /\ child' = [child EXCEPT
                   !.state = IF call.prog.exits THEN "exited" ELSE "hung",
                   !.exited_at = IF call.prog.exits THEN now ELSE @]
    /\ UNCHANGED <<call, pc, sent, pipes, now, timer, kills, shret>>

ChildCanStep ==
    \/ child.state = "reading" /\ (pipes.stdin # <<>> \/ ~pipes.stdin_open)
    \/ child.state \in {"writing", "hung"}
       /\ call.prog.closes /\ pipes.stdin_reader
    \/ child.state = "writing"
       /\ IF child.out < call.prog.outLen
          THEN Len(pipes.stdout) < PipeCap
          ELSE IF child.err < call.prog.errLen
          THEN Len(pipes.stderr) < PipeCap
          ELSE TRUE

\* ---- the parent: run_with_timeout ----
Return(r) == shret' = r /\ pc' = "done"

\* Command::new(cmd)...spawn()
Spawn ==
    /\ pc = "spawn"
    /\ child' = [child EXCEPT
                   !.state = IF call.prog.reads THEN "reading" ELSE "writing"]
    /\ pc' = IF call.stdin_input.some THEN "write" ELSE "check"
    /\ UNCHANGED <<call, sent, pipes, now, timer, kills, shret>>

SpawnFail ==
    /\ pc = "spawn"
    /\ Return([tag |-> "Err", val |-> <<"Failed to spawn process: ">>])
    /\ UNCHANGED <<call, sent, child, pipes, now, timer, kills>>

\* stdin.write_all(input.as_bytes()): one byte when the pipe has room
WriteStdin ==
    /\ pc = "write"
    /\ sent < Len(call.stdin_input.bytes)
    /\ Running(child) /\ pipes.stdin_reader
    /\ Len(pipes.stdin) < PipeCap
    /\ pipes' = [pipes EXCEPT
                   !.stdin = Append(@, call.stdin_input.bytes[sent + 1])]
    /\ sent' = sent + 1
    /\ UNCHANGED <<call, pc, child, now, timer, kills, shret>>

\* the read end is gone: write_all fails
WriteFail ==
    /\ pc = "write"
    /\ sent < Len(call.stdin_input.bytes)
    /\ (~Running(child) \/ ~pipes.stdin_reader)
    /\ Return([tag |-> "Err", val |-> <<"Stdin write failed: ">>])
    /\ UNCHANGED <<call, sent, child, pipes, now, timer, kills>>

\* drop(stdin); let start = Instant::now()
CloseStdin ==
    /\ pc = "write"
    /\ sent = Len(call.stdin_input.bytes)
    /\ pipes' = [pipes EXCEPT !.stdin_open = FALSE]
    /\ pc' = "check"
    /\ UNCHANGED <<call, sent, child, now, timer, kills, shret>>

TimeoutError(timeout) ==
    [tag |-> "Err", val |-> <<"Timeout after ", ToString(timeout)>>]

\* start.elapsed() > timeout
TimedOut(elapsed, timeout) == elapsed > timeout

\* Child::kill(): SIGKILL ends a child that is still running
NoKill(c) == c

Kill(c) == IF Running(c) THEN [c EXCEPT !.state = "killed"] ELSE c

CheckTimeout ==
    /\ pc = "check"
    /\ IF TimedOut(now, call.timeout)
       THEN /\ child' = Kill(child)
            /\ kills' = kills + 1
            /\ Return(TimeoutError(call.timeout))
       ELSE /\ pc' = "try_wait"
            /\ UNCHANGED <<child, kills, shret>>
    /\ UNCHANGED <<call, sent, pipes, now, timer>>

\* child.try_wait()
TryWait ==
    /\ pc = "try_wait"
    /\ IF child.state = "exited"
       THEN /\ child' = [child EXCEPT !.state = "reaped"]
            /\ pc' = "read"
            /\ UNCHANGED timer
       ELSE /\ pc' = "sleep"
            /\ timer' = now + SleepLen
            /\ UNCHANGED child
    /\ UNCHANGED <<call, sent, pipes, now, kills, shret>>

\* stdout.read_to_string, then exit_status.success()
ReadOutput ==
    /\ pc = "read"
    /\ IF call.prog.success
       THEN /\ Return([tag |-> "Ok", val |-> pipes.stdout])
            /\ pipes' = [pipes EXCEPT !.stdout = <<>>]
       ELSE /\ Return([tag |-> "Err",
                       val |-> <<"Process failed: ">> \o pipes.stderr])
            /\ pipes' = [pipes EXCEPT !.stdout = <<>>, !.stderr = <<>>]
    /\ UNCHANGED <<call, sent, child, now, timer, kills>>

\* thread::sleep returns
Wake ==
    /\ pc = "sleep"
    /\ now >= timer
    /\ pc' = "check"
    /\ UNCHANGED <<call, sent, child, pipes, now, timer, kills, shret>>

\* time passes while the parent sleeps; a prompt child is never slower
\* than the clock
Tick ==
    /\ pc = "sleep"
    /\ now < timer
    /\ call.prog.prompt => ~ChildCanStep
    /\ now' = now + 1
    /\ UNCHANGED <<call, pc, sent, child, pipes, timer, kills, shret>>

ShellNext ==
    \/ (Spawn \/ SpawnFail) /\ UNCHANGED <<pvars, cvars, lvars, mvars>>
    \/ (WriteStdin \/ WriteFail \/ CloseStdin) /\ UNCHANGED <<pvars, cvars, lvars, mvars>>
    \/ CheckTimeout /\ UNCHANGED <<pvars, cvars, lvars, mvars>>
    \/ TryWait /\ UNCHANGED <<pvars, cvars, lvars, mvars>>
    \/ ReadOutput /\ UNCHANGED <<pvars, cvars, lvars, mvars>>
    \/ (Wake \/ Tick) /\ UNCHANGED <<pvars, cvars, lvars, mvars>>
    \/ (ChildRead \/ ChildCloseStdin \/ ChildWriteOut \/ ChildWriteErr
        \/ ChildExit)
       /\ UNCHANGED <<pvars, cvars, lvars, mvars>>

SpecShell == ShellInit /\ [][ShellNext]_vars

\* the parent thread and the child are scheduled and the clock advances
SpecShellFair == SpecShell /\ WF_vars(ShellNext)

(***************************************************************************)
(* Properties of run_with_timeout                                          *)
(***************************************************************************)
\* C9: when run_with_timeout observes that the timeout has elapsed while
\* the child has not been reaped, it issues exactly one kill, returns the
\* error "Timeout after <timeout>", and after the return the child is no
\* longer running.
C9_TimeoutKillsOnce ==
    [][ /\ ( /\ pc = "check" /\ pc' # pc
             /\ now > call.timeout /\ child.state # "reaped" )
           => /\ kills = 0 /\ kills' = 1
              /\ pc' = "done"
              /\ shret' = [tag |-> "Err",
                           val |-> <<"Timeout after ",
                                     ToString(call.timeout)>>]
              /\ ~Running(child')
        /\ ( /\ pc = "done" /\ shret.tag = "Err"
             /\ shret.val[1] = "Timeout after " )
           => (kills' = 1 /\ ~Running(child') /\ pc' = "done") ]_vars

C9_Witness ==
    /\ pc = "done"
    /\ shret = [tag |-> "Err",
                val |-> <<"Timeout after ", ToString(call.timeout)>>]
    /\ kills = 1
    /\ child.state = "killed"
    /\ ~call.prog.exits

\* a child that reads the input it is given, writes its output and exits
\* on its own, its steps taking no time
WellBehaved ==
    /\ call.prog.prompt
    /\ call.prog.exits
    /\ call.prog.reads = call.stdin_input.some

\* C10: for a child that reads its input, writes its output and exits well
\* within the timeout, run_with_timeout returns Ok with exactly the bytes
\* the child wrote to standard output when the exit status is success, and
\* Err built from the standard error text otherwise, for every length of
\* output and input.
C10_ExactOutput ==
    (pc = "done" /\ child.state # "none" /\ WellBehaved)
    => shret = IF call.prog.success
               THEN [tag |-> "Ok", val |-> Bytes(call.prog.outLen)]
               ELSE [tag |-> "Err",
                     val |-> <<"Process failed: ">>
                             \o Bytes(call.prog.errLen)]

\* C11: every call of run_with_timeout eventually returns, whatever the
\* child does, also for a child that never reads its standard input and
\* for a child that never exits.
C11_AlwaysReturns == <>(pc = "done")

\* C12: cancellation is binary with respect to the deadline: if the child
\* exits before the timeout elapses, the result is never the timeout error.
C12_BinaryDeadline ==
    ( /\ pc = "done"
      /\ child.exited_at >= 0 /\ child.exited_at < call.timeout )
    => ~( shret.tag = "Err" /\ shret.val[1] = "Timeout after " )

(***************************************************************************)
(* EnvFilter::postprocess and latex_to_html                                *)
(***************************************************************************)
\* str::replace on atom sequences: leftmost non-overlapping occurrences
RECURSIVE ReplaceFrom(_, _, _, _)
ReplaceFrom(t, p, pat, with) ==
    IF p > Len(t) THEN <<>>
    ELSE IF p + Len(pat) - 1 <= Len(t) /\ SubSeq(t, p, p + Len(pat) - 1) = pat
    THEN with \o ReplaceFrom(t, p + Len(pat), pat, with)
    ELSE <<t[p]>> \o ReplaceFrom(t, p + 1, pat, with)

Replace(t, pat, with) == ReplaceFrom(t, 1, pat, with)

postprocessKeepMarkers(h, tlabels) ==
    [tag |-> "Ok",
     val |-> Replace(Replace(clean_labels(h, tlabels),
                             <<"$$">> \o BeginTok("equation"),
                             BeginTok("equation")),
                     EndTok("equation") \o <<"$$">>, EndTok("equation"))]

postprocess(h, tlabels) ==
    [tag |-> "Ok",
     val |-> Replace(Replace(Replace(Replace(clean_labels(h, tlabels),
                                             <<"(EQREFBEGIN)">>, <<"\\ref{">>),
                                     <<"(EQREFEND)">>, <<"}">>),
                             <<"$$">> \o BeginTok("equation"),
                             BeginTok("equation")),
                     EndTok("equation") \o <<"$$">>, EndTok("equation"))]

\* what run_with_timeout("pandoc", ..) may return for the text it is given;
\* the renderer is external: its output is either the text as it stands or
\* a failure
RenderOutcomes(text) ==
    { [tag |-> "Ok",  val |-> text],
      [tag |-> "Err", val |-> <<"Process failed: ", "pandoc">>],
      [tag |-> "Err", val |-> <<"Timeout after ", "1s">>],
      [tag |-> "Err", val |-> <<"Failed to spawn process: ">>] }

\* `?` on preprocess and `.map` on pandoc_output hand an Err on as it is
Swallowed(e) == [tag |-> "Ok", val |-> <<>>]

Propagate(e) == e

\* preprocessed = filter.preprocess(&preprocessed)?  when it is not Ok
LatexPreprocessFailed ==
    /\ lpc = "pre"
    /\ ret.tag \in {"Err", "Panic"}
    /\ lret' = Propagate(ret)
    /\ lpc' = "done"
    /\ UNCHANGED <<conv, spawned, preprocessed, pandoc_output>>

\* the renderer is called once preprocess has returned Ok
MayRenderAnyway(r) == r.tag \in {"Ok", "Err"}

MayRender(r) == r.tag = "Ok"

\* let pandoc_output = run_with_timeout("pandoc", .., Some(&preprocessed), ..)
LatexRender ==
    /\ lpc = "pre"
    /\ MayRender(ret)
    /\ preprocessed' = ret.val
    /\ spawned' = spawned + 1
    /\ pandoc_output' \in RenderOutcomes(ret.val)
    /\ lpc' = "rendered"
    /\ UNCHANGED <<conv, lret>>

\* pandoc_output.map(|output| { for filter in filters.rev() ... })
LatexPostprocess ==
    /\ lpc = "rendered"
    /\ lret' =
         IF pandoc_output.tag = "Ok"
         THEN LET post == postprocess(pandoc_output.val, theorem_labels)
              IN [tag |-> "Ok",
                  val |-> IF post.tag = "Ok" THEN post.val
                          ELSE pandoc_output.val]
         ELSE Propagate(pandoc_output)
    /\ lpc' = "done"
    /\ UNCHANGED <<conv, spawned, preprocessed, pandoc_output>>

LatexInit ==
    /\ PreInit
    /\ lpc = "pre" /\ conv = 1 /\ spawned = 0 /\ preprocessed = <<>>
    /\ pandoc_output = None /\ lret = None
    /\ CleanIdle /\ ShellIdle /\ MdIdle

LatexNext ==
    \/ Next
    \/ LatexPreprocessFailed /\ UNCHANGED <<pvars, cvars, svars, mvars>>
    \/ LatexRender /\ UNCHANGED <<pvars, cvars, svars, mvars>>
    \/ LatexPostprocess /\ UNCHANGED <<pvars, cvars, svars, mvars>>

SpecLatex == LatexInit /\ [][LatexNext]_vars

\* C13: latex_to_html returns Err, carrying the failing stage's error
\* unchanged, whenever preprocess or the renderer fails (postprocess of
\* EnvFilter never fails), and returns Ok only with the fully postprocessed
\* output of a successful renderer call on a successfully preprocessed text.
C13_ErrorsPropagate ==
    lpc = "done" =>
      /\ ret.tag = "Err" => lret = ret
      /\ (ret.tag = "Ok" /\ pandoc_output.tag = "Err") => lret = pandoc_output
      /\ lret.tag = "Ok" =>
           /\ ret.tag = "Ok" /\ pandoc_output.tag = "Ok"
           /\ postprocess(pandoc_output.val, theorem_labels).tag = "Ok"
           /\ lret.val = postprocess(pandoc_output.val, theorem_labels).val
      /\ lret.tag # "None"

C13_Witness ==
    /\ lpc = "done"
    /\ ret.tag = "Ok"
    /\ input # <<>>
    /\ pandoc_output = [tag |-> "Err", val |-> <<"Timeout after ", "1s">>]
    /\ lret = pandoc_output

\* C14: the stages happen in the order preprocess, renderer, postprocess:
\* the renderer is spawned at most once, only after preprocess returned Ok
\* and on its output, and postprocess runs only on the output of a
\* successful renderer call.
C14_StageOrder ==
    /\ spawned <= 1
    /\ spawned = 1 => (ret.tag = "Ok" /\ preprocessed = ret.val
                       /\ pandoc_output.tag # "None")
    /\ ret.tag \in {"None", "Err", "Panic"} => spawned = 0
    /\ lpc = "pre" => (spawned = 0 /\ lret = None /\ pandoc_output = None)
    /\ lpc = "rendered" => (spawned = 1 /\ lret = None)
    /\ lret.tag = "Ok" => (spawned = 1 /\ pandoc_output.tag = "Ok"
                           /\ lpc = "done")

C14_Witness ==
    /\ lpc = "done"
    /\ lret.tag = "Ok"
    /\ spawned = 1
    /\ Len(input) = 2
    /\ preprocessed = ret.val

(***************************************************************************)
(* Two conversions in a row                                                *)
(***************************************************************************)
\* a second latex_to_html call keeps the EnvFilter of the first
NewConversionSameFilter ==
    /\ lpc = "done"
    /\ conv = 1
    /\ lret.tag \in {"Ok", "Err"}
    /\ conv' = 2
    /\ input' = <<>>
    /\ result' = <<>>
    /\ env_stack' = <<"document">>
    /\ theorem_counter' = 0
    /\ ret' = None
    /\ lpc' = "pre" /\ spawned' = 0 /\ preprocessed' = <<>>
    /\ pandoc_output' = None /\ lret' = None
    /\ UNCHANGED <<theorem_labels, equation_labels>>

\* a second latex_to_html call: EnvFilter::new and the locals of preprocess
NewConversion ==
    /\ lpc = "done"
    /\ conv = 1
    /\ lret.tag \in {"Ok", "Err"}
    /\ conv' = 2
    /\ input' = <<>>
    /\ result' = <<>>
    /\ env_stack' = <<"document">>
    /\ theorem_counter' = 0
    /\ theorem_labels' = [x \in {} |-> ""]
    /\ equation_labels' = {}
    /\ ret' = None
    /\ lpc' = "pre" /\ spawned' = 0 /\ preprocessed' = <<>>
    /\ pandoc_output' = None /\ lret' = None

TwiceNext ==
    \/ LatexNext /\ (conv = 1 => Len(input') <= MaxFirst)
    \/ NewConversion /\ UNCHANGED <<cvars, svars, mvars>>

SpecTwice == LatexInit /\ [][TwiceNext]_vars

\* the scan state a conversion of toks reaches when nothing was converted
\* before it
FreshScan ==
    [result |-> <<>>, env_stack |-> <<"document">>, theorem_counter |-> 0,
     theorem_labels |-> [x \in {} |-> ""], equation_labels |-> {},
     ret |-> None]

AloneStep(st, s) ==
    IF st.ret.tag # "None" THEN st
    ELSE IF s \in BeginToks
    THEN LET c == NextCounter(NameOf(s), st.theorem_counter)
         IN [st EXCEPT !.env_stack = Append(@, NameOf(s)),
                       !.theorem_counter = c,
                       !.result = Append(@, BeginPiece(s, c))]
    ELSE IF s \in LabelToks
    THEN LET top == IF st.env_stack = <<>> THEN ""
                    ELSE st.env_stack[Len(st.env_stack)]
         IN [st EXCEPT
               !.theorem_labels =
                   IF top \in DOMAIN theorems
                   THEN Insert(@, NameOf(s),
                               LabelValue(top, st.theorem_counter))
                   ELSE @,
               !.equation_labels =
                   IF top \notin DOMAIN theorems /\ top = "equation"
                   THEN @ \cup {NameOf(s)} ELSE @,
               !.result = Append(@, s)]
    ELSE IF s \in RefToks
    THEN [st EXCEPT !.result = Append(@, RefPiece(s, st.theorem_labels,
                                                  st.equation_labels))]
    ELSE IF s \in EndToks
    THEN IF st.env_stack = <<>>
         THEN [st EXCEPT !.ret = [tag |-> "Panic", val |-> <<>>]]
         ELSE LET last_env == st.env_stack[Len(st.env_stack)]
                  popped   == SubSeq(st.env_stack, 1, Len(st.env_stack) - 1)
              IN IF Mismatch(NameOf(s), last_env)
                 THEN [st EXCEPT !.env_stack = popped,
                                 !.ret = MismatchError(last_env, NameOf(s))]
                 ELSE [st EXCEPT !.env_stack = popped,
                                 !.result = Append(@, EndPiece(s))]
    ELSE [st EXCEPT !.result = Append(@, s)]

RECURSIVE Alone(_)
Alone(toks) ==
    IF toks = <<>> THEN FreshScan
    ELSE AloneStep(Alone(SubSeq(toks, 1, Len(toks) - 1)), toks[Len(toks)])

\* C15: conversions are independent: the conversion of a fragment that
\* follows another conversion goes through the states, and gives the
\* result, of a conversion of that fragment alone; counter, label tables
\* and stack start fresh in every call.
C15_Independent ==
    conv = 2 =>
      LET a == Alone(input) IN
      /\ result = a.result
      /\ env_stack = a.env_stack
      /\ theorem_counter = a.theorem_counter
      /\ theorem_labels = a.theorem_labels
      /\ equation_labels = a.equation_labels
      /\ ret.tag \in {"Err", "Panic"} => (ret = a.ret /\ lret \in {None, ret})
      /\ ret.tag = "None" => a.ret.tag = "None"
      /\ ret.tag = "Ok" => ret.val = Flatten(a.result)
      /\ lret.tag = "Ok" =>
           lret.val = postprocess(pandoc_output.val, a.theorem_labels).val
      /\ spawned = (IF pandoc_output = None THEN 0 ELSE 1)

C15_Witness ==
    /\ conv = 2
    /\ lpc = "done"
    /\ input = <<BeginTok("theorem"), LabelTok("l1"), RefTok("l1")>>
    /\ result[1] = <<"\\textbf{", "Theorem", " ", "1", "}. ">>
    /\ result[3] = <<"\\href{#", "l1", "}{", "1", "}">>
    /\ lret.tag = "Ok"

(***************************************************************************)
(* Markdown block preprocessors (markdown_expandable.rs)                   *)
(* A text is the sequence of its lines (markdown.lines()); a line is a     *)
(* sequence of atoms; every line of an output ends with "\n".              *)
(***************************************************************************)
MdLineKinds ==
    { <<":::", "expandable">>,
      <<":::", "card">>,
      <<":::", "card", "[", "example", "]">>,
      <<":::", ":">>,
      <<" ", ":::">>,
      <<" ", "**H** ", "[", "Click", "]", ".">>,
      <<"[", "a", "]", "[", "b", "]">>,
      <<"Body">> }

MdInputs == UNION {[1..n -> MdLineKinds] : n \in 0..MaxLines}

\* str::trim_start / str::trim
RECURSIVE trim_start(_)
trim_start(line) ==
    IF line # <<>> /\ Head(line) = " " THEN trim_start(Tail(line)) ELSE line

RECURSIVE trim_end(_)
trim_end(line) ==
    IF line # <<>> /\ line[Len(line)] = " "
    THEN trim_end(SubSeq(line, 1, Len(line) - 1)) ELSE line

trim(line) == trim_end(trim_start(line))

starts_with(line, prefix) ==
    Len(prefix) <= Len(line) /\ SubSeq(line, 1, Len(prefix)) = prefix

\* body.trim_start().starts_with(":::")
IsFence(line) == starts_with(trim_start(line), <<":::">>)

\* variant: a :::card line does not end a body
RECURSIVE NextFenceNotCard(_, _)
NextFenceNotCard(lines, i) ==
    IF i > Len(lines) THEN Len(lines) + 1
    ELSE IF /\ IsFence(lines[i])
            /\ ~starts_with(trim_start(lines[i]), <<":::", "card">>)
    THEN i
    ELSE NextFenceNotCard(lines, i + 1)

\* index of the first fence line at or after i, Len(lines) + 1 if none
RECURSIVE NextFence(_, _)
NextFence(lines, i) ==
    IF i > Len(lines) THEN Len(lines) + 1
    ELSE IF IsFence(lines[i]) THEN i
    ELSE NextFence(lines, i + 1)

\* variant: the id is formatted before the counter is incremented
ExpandIdStale(id_counter) == <<"expand-", ToString(id_counter - 1)>>

\* format!("expand-{}", id_counter)
ExpandId(id_counter) == <<"expand-", ToString(id_counter)>>

ToggleLink(id, text) ==
    <<"<a class=\"expand-link\" data-bs-toggle=\"collapse\" href='#">>
    \o id \o <<"'>">> \o text \o <<"</a>">>

\* \[([^\]]+)\] matches at p and ends at the returned index (0: no match)
BracketEnd(line, p) ==
    IF line[p] # "["
    THEN 0
    ELSE LET qs == {q \in (p + 1)..Len(line) : line[q] = "]"}
         IN IF qs = {} THEN 0
            ELSE LET q == CHOOSE x \in qs : \A y \in qs : x <= y
                 IN IF q > p + 1 THEN q ELSE 0

\* re.replace_all(heading_line, |caps| toggle link)
RECURSIVE ReplaceBrackets(_, _, _)
ReplaceBrackets(line, p, id) ==
    IF p > Len(line) THEN <<>>
    ELSE LET q == BracketEnd(line, p)
         IN IF q # 0
            THEN ToggleLink(id, SubSeq(line, p + 1, q - 1))
                 \o ReplaceBrackets(line, q + 1, id)
            ELSE <<line[p]>> \o ReplaceBrackets(line, p + 1, id)

CollapseOpen(id) == <<"<div class=\"collapse\" id=\"">> \o id \o <<"\">">>

RECURSIVE ExpandablesFrom(_, _, _)
ExpandablesFrom(lines, i, id_counter) ==
    IF i > Len(lines) THEN <<>>
    ELSE IF starts_with(trim_start(lines[i]), <<":::", "expandable">>)
    THEN LET heading_line == IF i + 1 <= Len(lines) THEN trim(lines[i + 1])
                             ELSE <<>>
             counter == id_counter + 1
             id      == ExpandId(counter)
             j       == NextFence(lines, i + 2)
         IN << ReplaceBrackets(heading_line, 1, id),
               <<>>,
               CollapseOpen(id),
               <<"  <div class=\"card card-body\">">> >>
            \o SubSeq(lines, i + 2, j - 1)
            \o << <<"  </div>">>, <<"</div>">> >>
            \o ExpandablesFrom(lines, j + 1, counter)
    ELSE <<lines[i]>> \o ExpandablesFrom(lines, i + 1, id_counter)

preprocess_expandables(markdown) == ExpandablesFrom(markdown, 1, 0)

\* extract_class: \[([^"]+)\], leftmost start, greedy
extract_class(line) ==
    LET ps == {p \in 1..Len(line) :
                 /\ line[p] = "["
                 /\ \E q \in (p + 2)..Len(line) :
                       /\ line[q] = "]"
                       /\ \A r \in (p + 1)..(q - 1) : line[r] # "\""}
    IN IF ps = {} THEN [some |-> FALSE, val |-> <<>>]
       ELSE LET p  == CHOOSE x \in ps : \A y \in ps : x <= y
                qs == {q \in (p + 2)..Len(line) :
                         /\ line[q] = "]"
                         /\ \A r \in (p + 1)..(q - 1) : line[r] # "\""}
                q  == CHOOSE x \in qs : \A y \in qs : y <= x
            IN [some |-> TRUE, val |-> SubSeq(line, p + 1, q - 1)]

\* variant: no trailing space after "card" when the class is empty
CardOpenTrimmed(class) ==
    IF class = <<>> THEN <<"<div class=\"card", "\">">>
    ELSE <<"<div class=\"card ">> \o class \o <<"\">">>

\* format!(r#"<div class="card {class}">"#)
CardOpen(class) == <<"<div class=\"card ">> \o class \o <<"\">">>

\* variant: the closing wrapper is written only when a fence ends the body
RECURSIVE CardsFromOpenEnded(_, _)
CardsFromOpenEnded(lines, i) ==
    IF i > Len(lines) THEN <<>>
    ELSE IF starts_with(trim_start(lines[i]), <<":::", "card">>)
    THEN LET c     == extract_class(lines[i])
             class == IF c.some THEN c.val ELSE <<>>
             j     == NextFence(lines, i + 1)
         IN << CardOpen(class), <<>> >>
            \o SubSeq(lines, i + 1, j - 1)
            \o (IF j <= Len(lines) THEN << <<"  </div>">>, <<>> >> ELSE <<>>)
            \o CardsFromOpenEnded(lines, j + 1)
    ELSE <<lines[i]>> \o CardsFromOpenEnded(lines, i + 1)

RECURSIVE CardsFrom(_, _)
CardsFrom(lines, i) ==
    IF i > Len(lines) THEN <<>>
    ELSE IF starts_with(trim_start(lines[i]), <<":::", "card">>)
    THEN LET c     == extract_class(lines[i])
             class == IF c.some THEN c.val ELSE <<>>
             j     == NextFence(lines, i + 1)
         IN << CardOpen(class), <<>> >>
            \o SubSeq(lines, i + 1, j - 1)
            \o << <<"  </div>">>, <<>> >>
            \o CardsFrom(lines, j + 1)
    ELSE <<lines[i]>> \o CardsFrom(lines, i + 1)

preprocess_cards(markdown) == CardsFrom(markdown, 1)

MdInit ==
    /\ md \in MdInputs
    /\ md_out = <<>>
    /\ PreIdle /\ theorem_labels = [x \in {} |-> ""]
    /\ CleanIdle /\ ShellIdle /\ LatexIdle

RunExpandables ==
    /\ md_out = <<>>
    /\ md_out' = <<[fn |-> "preprocess_expandables",
                    out |-> preprocess_expandables(md)]>>
    /\ UNCHANGED <<md, pvars, cvars, svars, lvars>>

RunCards ==
    /\ md_out = <<>>
    /\ md_out' = <<[fn |-> "preprocess_cards", out |-> preprocess_cards(md)]>>
    /\ UNCHANGED <<md, pvars, cvars, svars, lvars>>

MdNext == RunExpandables \/ RunCards

SpecMarkdown == MdInit /\ [][MdNext]_vars

(***************************************************************************)
(* Claims about the Markdown block preprocessors                           *)
(***************************************************************************)
Ran(fn) == md_out # <<>> /\ md_out[1].fn = fn

\* the lines at which the outer loop opens a block of the given kind:
\* a fence line that ends the body of the previous block opens nothing
RECURSIVE OpeningLines(_, _, _, _)
OpeningLines(lines, i, kind, skip) ==
    IF i > Len(lines) THEN <<>>
    ELSE IF starts_with(trim_start(lines[i]), <<":::", kind>>)
    THEN <<i>> \o OpeningLines(lines, NextFence(lines, i + skip) + 1, kind, skip)
    ELSE OpeningLines(lines, i + 1, kind, skip)

Positions(line, a) == {p \in 1..Len(line) : line[p] = a}

OneSpan(line) ==
    /\ Cardinality(Positions(line, "[")) = 1
    /\ Cardinality(Positions(line, "]")) = 1
    /\ \E p \in Positions(line, "[") : \E q \in Positions(line, "]") : p + 1 < q

HrefAtom == "<a class=\"expand-link\" data-bs-toggle=\"collapse\" href='#"

\* the collapsible wrappers of an output, in order
WrapperLines(out) ==
    {p \in 1..Len(out) : out[p] # <<>> /\ out[p][1] = "<div class=\"collapse\" id=\""}

\* C16: the k-th opening line of preprocess_expandables generates expand-k,
\* used both for the hrefs of the heading and for the id of the wrapper;
\* the ids of different blocks differ; a heading with exactly one bracketed
\* span [T] becomes the heading with that span replaced by one toggle link
\* of text T, the text around it kept.
C16_ExpandIds ==
    Ran("preprocess_expandables") =>
        LET out   == md_out[1].out
            opens == OpeningLines(md, 1, "expandable", 2)
            ws    == WrapperLines(out)
        IN /\ Cardinality(ws) = Len(opens)
           /\ \A p \in ws :
                LET k  == Cardinality({x \in ws : x <= p})
                    id == <<"expand-", ToString(k)>>
                    h  == IF opens[k] + 1 <= Len(md) THEN trim(md[opens[k] + 1])
                          ELSE <<>>
                    oh == out[p - 2]
                IN /\ out[p] = <<"<div class=\"collapse\" id=\"">> \o id \o <<"\">">>
                   /\ \A i \in Positions(oh, HrefAtom) : SubSeq(oh, i + 1, i + 2) = id
                   /\ OneSpan(h) =>
                        LET b == CHOOSE x \in Positions(h, "[") : TRUE
                            e == CHOOSE x \in Positions(h, "]") : TRUE
                        IN /\ Cardinality(Positions(oh, HrefAtom)) = 1
                           /\ oh = SubSeq(h, 1, b - 1)
                                   \o <<HrefAtom>> \o id \o <<"'>">>
                                   \o SubSeq(h, b + 1, e - 1) \o <<"</a>">>
                                   \o SubSeq(h, e + 1, Len(h))
           /\ \A p, q \in ws : p # q => out[p] # out[q]

C16_Witness ==
    /\ Ran("preprocess_expandables")
    /\ md = << <<":::", "expandable">>, <<" ", "**H** ", "[", "Click", "]", ".">>,
               <<":::", ":">>,
               <<":::", "expandable">>, <<" ", "**H** ", "[", "Click", "]", ".">> >>
    /\ md_out[1].out[1] = <<"**H** ", HrefAtom, "expand-", "1", "'>", "Click", "</a>", ".">>
    /\ md_out[1].out[7] = <<"**H** ", HrefAtom, "expand-", "2", "'>", "Click", "</a>", ".">>
    /\ md_out[1].out[9] = <<"<div class=\"collapse\" id=\"", "expand-", "2", "\">">>

\* the class name written in brackets on an opening line, empty when none
BracketedClass(line) ==
    IF Positions(line, "[") = {} THEN <<>>
    ELSE LET b == CHOOSE x \in Positions(line, "[") : TRUE
             e == CHOOSE x \in Positions(line, "]") : TRUE
         IN SubSeq(line, b + 1, e - 1)

\* C17: preprocess_cards writes, for every :::card opening line, the wrapper
\* <div class="card C"> with C the bracketed class of the line or empty,
\* then the body lines unchanged and in order up to the next line starting
\* with ::: (not included), then exactly one closing wrapper.
C17_CardBlocks ==
    Ran("preprocess_cards") =>
        LET out   == md_out[1].out
            opens == OpeningLines(md, 1, "card", 1)
        IN /\ \A k \in 1..Len(opens) :
                LET o == opens[k]
                    j == NextFence(md, o + 1)
                    P == o + 2 * (k - 1)
                IN /\ out[P] = <<"<div class=\"card ">> \o BracketedClass(md[o]) \o <<"\">">>
                   /\ out[P + 1] = <<>>
                   /\ \A b \in (o + 1)..(j - 1) : out[P + 1 + b - o] = md[b]
                   /\ out[P + 1 + j - o] = <<"  </div>">>
                   /\ out[P + 2 + j - o] = <<>>
           /\ Cardinality({p \in 1..Len(out) : out[p] = <<"  </div>">>}) = Len(opens)
           /\ Cardinality({p \in 1..Len(out) :
                 out[p] # <<>> /\ out[p][1] = "<div class=\"card "}) = Len(opens)

C17_Witness ==
    /\ Ran("preprocess_cards")
    /\ md = << <<":::", "card">>, <<"Body">>, <<":::", ":">>,
               <<":::", "card", "[", "example", "]">>, <<"Body">> >>
    /\ md_out[1].out = << <<"<div class=\"card ", "\">">>, <<>>, <<"Body">>,
                          <<"  </div>">>, <<>>,
                          <<"<div class=\"card ", "example", "\">">>, <<>>,
                          <<"Body">>, <<"  </div>">>, <<>> >>

(***************************************************************************)
(* Claims about the round trip through preprocess, renderer, postprocess   *)
(***************************************************************************)
\* the innermost environment open when the i-th match is scanned
InnermostAt(i) ==
    LET open == OpenAfter(SubSeq(input, 1, i - 1))
    IN IF open = <<>> THEN "document" ELSE Top(open)

\* label n was declared before the i-th match inside one of envs
DeclaredIn(i, n, envs) ==
    \E j \in 1..(i - 1) : input[j] = LabelTok(n) /\ InnermostAt(j) \in envs

\* the i-th match is a reference to an equation label, not a theorem label
DeferredRef(i) ==
    /\ input[i] \in RefToks
    /\ DeclaredIn(i, NameOf(input[i]), {"equation"})
    /\ ~DeclaredIn(i, NameOf(input[i]), DOMAIN theorems)

Occurrences(t, pat) ==
    Cardinality({p \in 1..(Len(t) - Len(pat) + 1) :
                   SubSeq(t, p, p + Len(pat) - 1) = pat})

\* the renderer returned the text it was given
PassedThrough ==
    /\ lpc = "done"
    /\ pandoc_output = [tag |-> "Ok", val |-> preprocessed]

\* C18: a \ref{n} to a label declared earlier inside an equation, and not a
\* theorem label, is written by preprocess as the deferred marker around n;
\* after postprocess of a rendering that passed the text through, no marker
\* is left and \ref{n} stands in the output for each such reference.
C18_DeferredMarkers ==
    /\ \A i \in 1..Len(result) :
          DeferredRef(i) =>
             result[i] = <<"(EQREFBEGIN)", NameOf(input[i]), "(EQREFEND)">>
    /\ PassedThrough =>
          /\ lret.tag = "Ok"
          /\ \A p \in 1..Len(lret.val) :
                lret.val[p] \notin {"(EQREFBEGIN)", "(EQREFEND)"}
          /\ \A n \in LabelNames :
                Occurrences(lret.val, RefTok(n)) >=
                   Cardinality({i \in 1..Len(result) :
                                  DeferredRef(i) /\ NameOf(input[i]) = n})

C18_Witness ==
    /\ PassedThrough
    /\ input = <<BeginTok("equation"), LabelTok("l1"), RefTok("l1")>>
    /\ result[3] = <<"(EQREFBEGIN)", "l1", "(EQREFEND)">>
    /\ lret = [tag |-> "Ok",
               val |-> <<"\\begin{", "equation", "}", "\\label{", "l1", "}",
                         "\\ref{", "l1", "}">>]

EquationOnly ==
    {BeginTok("equation"), EndTok("equation"), TextChunk}
    \cup LabelToks \cup RefToks

\* C19: preprocess writes $$\begin{equation} for every \begin{equation}
\* and \end{equation}$$ for every \end{equation}; postprocess of the
\* preprocess output of an input made of equation environments, labels and
\* references is the input again.
C19_EquationRoundTrip ==
    /\ \A i \in 1..Len(result) :
          /\ input[i] = BeginTok("equation") =>
                result[i] = <<"$$", "\\begin{", "equation", "}">>
          /\ input[i] = EndTok("equation") =>
                result[i] = <<"\\end{", "equation", "}", "$$">>
    /\ ( /\ PassedThrough
         /\ \A i \in 1..Len(input) : input[i] \in EquationOnly )
       => lret = [tag |-> "Ok", val |-> Flatten(input)]

C19_Witness ==
    /\ PassedThrough
    /\ input = <<BeginTok("equation"), LabelTok("l1"), EndTok("equation")>>
    /\ preprocessed = <<"$$", "\\begin{", "equation", "}", "\\label{", "l1", "}",
                        "\\end{", "equation", "}", "$$">>
    /\ lret = [tag |-> "Ok", val |-> Flatten(input)]

(***************************************************************************)
(* Math segments of markdown_to_html (formatted_text.rs)                   *)
(* A text is the sequence of its characters.                               *)
(***************************************************************************)
MathChars == {"$", "\\", "a", " "}

MathUnits == { <<"$", "a", "$">>,
               <<"$", "$", "a", "$", "$">>,
               <<"$", "a", "\\", "$", "$", " ">> }

RECURSIVE Repeat(_, _)
Repeat(u, n) == IF n = 0 THEN <<>> ELSE u \o Repeat(u, n - 1)

MathInputs ==
    { Repeat(u, n) \o t :
        u \in MathUnits, n \in 0..MaxMath,
        t \in UNION {[1..k -> MathChars] : k \in 0..MaxTail} }

\* format!("{}", n): the decimal digits of n
RECURSIVE Digits(_)
Digits(n) ==
    IF n < 10 THEN <<ToString(n)>>
    ELSE Digits(n \div 10) \o <<ToString(n % 10)>>

\* format!("MATH_SEGMENT_PLACEHOLDER_{}", n)
Placeholder(n) == <<"MATH_SEGMENT_PLACEHOLDER_">> \o Digits(n)

\* the inner while loop: index of the closing delimiter, 0 when none
RECURSIVE FindClosing(_, _, _)
FindClosing(chars, j, delim_len) ==
    IF j > Len(chars) THEN 0
    ELSE IF chars[j] = "\\" /\ j + 1 <= Len(chars)
    THEN FindClosing(chars, j + 2, delim_len)
    ELSE IF /\ chars[j] = "$"
            /\ \A k \in 1..(delim_len - 1) :
                  j + k <= Len(chars) /\ chars[j + k] = "$"
    THEN j
    ELSE FindClosing(chars, j + 1, delim_len)

RECURSIVE ExtractFrom(_, _, _, _)
ExtractFrom(chars, i, output, segments) ==
    IF i > Len(chars) THEN [output |-> output, segments |-> segments]
    ELSE IF chars[i] = "$" /\ i > 1 /\ chars[i - 1] = "\\"
    THEN ExtractFrom(chars, i + 1, Append(output, "$"), segments)
    ELSE IF chars[i] = "$"
    THEN LET delim_len == IF i + 1 <= Len(chars) /\ chars[i + 1] = "$"
                          THEN 2 ELSE 1
             j == FindClosing(chars, i + delim_len, delim_len)
         IN IF j # 0
            THEN ExtractFrom(chars, j + delim_len,
                             output \o Placeholder(Len(segments)),
                             Append(segments,
                                    SubSeq(chars, i, j + delim_len - 1)))
            ELSE ExtractFrom(chars, i + 1, Append(output, chars[i]), segments)
    ELSE ExtractFrom(chars, i + 1, Append(output, chars[i]), segments)

extract_math_segments(markdown) == ExtractFrom(markdown, 1, <<>>, <<>>)

\* for (idx, segment) in segments.iter().enumerate()
RECURSIVE RestoreFrom(_, _, _)
RestoreFrom(restored, segments, idx) ==
    IF idx >= Len(segments) THEN restored
    ELSE RestoreFrom(Replace(restored, Placeholder(idx), segments[idx + 1]),
                     segments, idx + 1)

restore_math_segments(h, segments) == RestoreFrom(h, segments, 0)

MathInit ==
    /\ md \in MathInputs
    /\ md_out = <<>>
    /\ PreIdle /\ theorem_labels = [x \in {} |-> ""]
    /\ CleanIdle /\ ShellIdle /\ LatexIdle

\* the else branch of config.escape_markdown_in_math
ExtractMath ==
    /\ md_out = <<>>
    /\ LET e == extract_math_segments(md)
       IN md_out' = <<[fn |-> "extract_math_segments",
                       out |-> e.output, segments |-> e.segments]>>
    /\ UNCHANGED <<md, pvars, cvars, svars, lvars>>

\* if !math_segments.is_empty() { html = restore_math_segments(..) }
RestoreMath ==
    /\ Ran("extract_math_segments")
    /\ md_out[1].segments # <<>>
    /\ md_out' = <<[fn |-> "restore_math_segments",
                    out |-> restore_math_segments(md_out[1].out,
                                                  md_out[1].segments),
                    segments |-> md_out[1].segments]>>
    /\ UNCHANGED <<md, pvars, cvars, svars, lvars>>

NothingToRestore ==
    /\ Ran("extract_math_segments")
    /\ md_out[1].segments = <<>>
    /\ md_out' = <<[fn |-> "markdown_to_html", out |-> md_out[1].out,
                    segments |-> <<>>]>>
    /\ UNCHANGED <<md, pvars, cvars, svars, lvars>>

MathNext == ExtractMath \/ RestoreMath \/ NothingToRestore

SpecMath == MathInit /\ [][MathNext]_vars

\* C20: restore_math_segments applied to the output of
\* extract_math_segments gives the original text, for any number of spans.
C20_MathRoundTrip ==
    Ran("restore_math_segments") => md_out[1].out = md

(***************************************************************************)
(* The \begin alternative of the token regex on raw text                   *)
(* (pandoc_latex_filters.rs:28, 62-86): \\begin(\{[^}]+\})+                *)
(***************************************************************************)
EmptyGroup == <<"{", "}">>

RawEnvNames == {"problem", "solution", "foo", "theorem", "equation"}

\* \begin{env} followed directly by brace groups, empty ones included
RawBegins ==
    { BeginTok(e) \o Flatten(gs) :
        e \in RawEnvNames,
        gs \in UNION {[1..n -> {ExtraGroup, EmptyGroup}] : n \in 0..MaxGroups} }

\* (\{[^}]+\})+ continued at p: the index of the last atom of the match
RECURSIVE GroupsEnd(_, _)
GroupsEnd(text, p) ==
    IF p > Len(text) \/ text[p] # "{" THEN p - 1
    ELSE LET qs == {q \in (p + 1)..Len(text) : text[q] = "}"}
         IN IF qs = {} THEN p - 1
            ELSE LET q == CHOOSE x \in qs : \A y \in qs : x <= y
                 IN IF q > p + 1 THEN GroupsEnd(text, q + 1) ELSE p - 1

\* the match of the regex at the head of a raw \begin text: the name group
\* and the non-empty groups that follow it without a gap
BeginMatch(raw) == SubSeq(raw, 1, GroupsEnd(raw, 4))

\* one \begin match of raw text and the copy of the text after the match
ScanRawBegin(raw) ==
    /\ Scanning
    /\ LET s        == BeginMatch(raw)
           gap      == SubSeq(raw, Len(s) + 1, Len(raw))
           env_name == NameOf(s)
           counter  == NextCounter(env_name, theorem_counter)
           tail     == IF gap = <<>> THEN <<>> ELSE <<gap>>
       IN /\ env_stack' = Append(env_stack, env_name)
          /\ theorem_counter' = counter
          /\ result' = Append(result, BeginPiece(s, counter)) \o tail
          /\ input' = Append(input, s) \o tail
    /\ UNCHANGED <<theorem_labels, equation_labels, ret>>

RawEndToks == {EndTok(e) : e \in RawEnvNames}

RawNext ==
    \/ \E raw \in RawBegins :
          ScanRawBegin(raw) /\ UNCHANGED <<cvars, svars, lvars, mvars>>
    \/ \E s \in RawEndToks : ScanEnd(s) /\ UNCHANGED <<cvars, svars, lvars, mvars>>
    \/ Finish /\ UNCHANGED <<cvars, svars, lvars, mvars>>

SpecRaw == Init /\ [][RawNext]_vars

Containers == {"problem", "solution"} \ DOMAIN theorems

IsBeginMatch(s) == s # <<>> /\ s[1] = "\\begin{"

\* C21: a \begin{env} of a container name that is not a theorem kind is
\* written as the bare \begin{env}: none of the brace groups that follow
\* it in the text, empty ones included, reaches the output; the matching
\* \end{env} is written unchanged.
C21_ContainerBare ==
    \A i \in 1..Len(result) :
       /\ ( IsBeginMatch(input[i]) /\ NameOf(input[i]) \in Containers ) =>
             /\ result[i] = <<"\\begin{", NameOf(input[i]), "}">>
             /\ i + 1 <= Len(result) => Head(result[i + 1]) # "{"
       /\ ( input[i] \in RawEndToks /\ NameOf(input[i]) \in Containers ) =>
             result[i] = input[i]

(***************************************************************************)
(* The scan over theorem and equation environments, labels and references *)
(* only: longer inputs over fewer kinds of match                           *)
(***************************************************************************)
LabelledEnvs == {"theorem", "equation"}

DeepInit ==
    /\ PreInit
    /\ lpc = "labels" /\ conv = 1 /\ spawned = 0 /\ preprocessed = <<>>
    /\ pandoc_output = None /\ lret = None
    /\ CleanIdle /\ ShellIdle /\ MdIdle

DeepNext ==
    \/ \E e \in LabelledEnvs :
          ScanBegin(BeginTok(e)) /\ UNCHANGED <<cvars, svars, lvars, mvars>>
    \/ \E s \in LabelToks : ScanLabel(s) /\ UNCHANGED <<cvars, svars, lvars, mvars>>
    \/ \E s \in RefToks   : ScanRef(s)   /\ UNCHANGED <<cvars, svars, lvars, mvars>>
    \/ \E e \in LabelledEnvs :
          ScanEnd(EndTok(e)) /\ UNCHANGED <<cvars, svars, lvars, mvars>>
    \/ Finish /\ UNCHANGED <<cvars, svars, lvars, mvars>>

SpecDeep == DeepInit /\ [][DeepNext]_vars

\* C22: a \ref{n} is resolved by priority on the tables as they stand: a
\* hyperlink when n is a theorem label (also when it is an equation label
\* too), else the deferred marker when n is an equation label, else the
\* \ref{n} text itself; the stack, the counter and the tables stay as
\* they are.
C22_RefPriority ==
    [][ \A s \in RefToks :
          ( ret.tag = "None" /\ input' = Append(input, s) ) =>
             /\ result' =
                  Append(result,
                         IF s[2] \in DOMAIN theorem_labels
                         THEN <<"\\href{#", s[2], "}{", theorem_labels[s[2]], "}">>
                         ELSE IF s[2] \in equation_labels
                         THEN <<"(EQREFBEGIN)", s[2], "(EQREFEND)">>
                         ELSE s)
             /\ UNCHANGED <<env_stack, theorem_counter, theorem_labels,
                            equation_labels>> ]_vars

C22_Witness ==
    /\ input = <<BeginTok("equation"), LabelTok("l1"), BeginTok("theorem"),
                 LabelTok("l1"), RefTok("l1")>>
    /\ "l1" \in equation_labels
    /\ "l1" \in DOMAIN theorem_labels
    /\ result[5] = <<"\\href{#", "l1", "}{", "1", "}">>

\* a line that starts with ::: after leading whitespace
FenceLine(line) ==
    \E p \in 1..Len(line) :
       line[p] = ":::" /\ \A r \in 1..(p - 1) : line[r] = " "

\* the first fence line at or after i, the line after the last when none
FirstFence(lines, i) ==
    LET fs == {q \in i..Len(lines) : FenceLine(lines[q])}
    IN IF fs = {} THEN Len(lines) + 1
       ELSE CHOOSE q \in fs : \A r \in fs : q <= r

\* C23: the body of an expandable block is every line after the heading
\* line up to, not including, the next line that starts with ::: after
\* leading whitespace, copied unchanged and in order into the wrapper; that
\* line ends the block whatever it carries and opens nothing itself; the
\* body is not scanned for directives.
C23_ExpandableBody ==
    Ran("preprocess_expandables") =>
        LET out == md_out[1].out
            ws  == WrapperLines(out)
        IN \A p \in ws :
              LET k   == Cardinality({x \in ws : x <= p})
                  o   == (p - 2) - 3 * (k - 1)
                  j   == FirstFence(md, o + 2)
                  n   == IF j >= o + 2 THEN j - (o + 2) ELSE 0
              IN /\ starts_with(trim_start(md[o]), <<":::", "expandable">>)
                 /\ out[p + 1] = <<"  <div class=\"card card-body\">">>
                 /\ \A b \in 1..n : out[p + 1 + b] = md[o + 1 + b]
                 /\ out[p + 2 + n] = <<"  </div>">>
                 /\ out[p + 3 + n] = <<"</div>">>
                 /\ IF j + 1 > Len(md) THEN Len(out) = p + 3 + n
                    ELSE IF starts_with(trim_start(md[j + 1]), <<":::", "expandable">>)
                    THEN p + 6 + n \in ws
                    ELSE out[p + 4 + n] = md[j + 1]

C23_Witness ==
    /\ Ran("preprocess_expandables")
    /\ md = << <<":::", "expandable">>, <<" ", "**H** ", "[", "Click", "]", ".">>,
               <<"[", "a", "]", "[", "b", "]">>, <<":::", "card">>, <<"Body">> >>
    /\ md_out[1].out =
         << <<"**H** ", HrefAtom, "expand-", "1", "'>", "Click", "</a>", ".">>,
            <<>>,
            <<"<div class=\"collapse\" id=\"", "expand-", "1", "\">">>,
            <<"  <div class=\"card card-body\">">>,
            <<"[", "a", "]", "[", "b", "]">>,
            <<"  </div>">>, <<"</div>">>,
            <<"Body">> >>

(***************************************************************************)
(* Claims about the label cleanup                                          *)
(***************************************************************************)
\* an anchor span of the renderer starts at p: open tag, [ordinal], close
AnchorAt(h, p) ==
    /\ p + 8 <= Len(h)
    /\ \E id \in LabelNames, label \in LabelNames, n \in LabelNames :
          SubSeq(h, p, p + 8) = OpenTag(id, label) \o Ordinal(n) \o CloseTag

\* the atoms of the bracketed ordinals inside anchors of recorded labels
OrdinalAtoms(h, tlabels) ==
    {q \in 1..Len(h) :
       \E p \in 1..Len(h) :
          /\ AnchorAt(h, p)
          /\ h[p + 1] \in DOMAIN tlabels
          /\ q \in (p + 5)..(p + 7)}

\* h without the atoms at the indices in R
RECURSIVE Without(_, _, _)
Without(h, R, p) ==
    IF p > Len(h) THEN <<>>
    ELSE (IF p \in R THEN <<>> ELSE <<h[p]>>) \o Without(h, R, p + 1)

\* C24: the cleanup removes the bracketed ordinal of every anchor span
\* whose id is a recorded theorem label, keeps the span with its id and
\* label attributes, and leaves every other span and all other text as
\* they are.
C24_CleanFrame ==
    cleaned # <<>> =>
        cleaned[1] = Without(html, OrdinalAtoms(html, theorem_labels), 1)

C24_Witness ==
    /\ cleaned # <<>>
    /\ DOMAIN theorem_labels = {"l1"}
    /\ html = <<"[", "l1", "]",
                "<span id=\"", "l2", "\" label=\"", "l2", "\">",
                "<span id=\"", "l1", "\" label=\"", "l1", "\">",
                "[", "l1", "]", "</span>">>
    /\ cleaned[1] = <<"[", "l1", "]",
                      "<span id=\"", "l2", "\" label=\"", "l2", "\">",
                      "<span id=\"", "l1", "\" label=\"", "l1", "\">",
                      "</span>">>

(***************************************************************************)
(* Where the deferred markers are substituted back                         *)
(***************************************************************************)
MarkerAtoms == {"(EQREFBEGIN)", "(EQREFEND)"}

HasMarker(t) == \E p \in 1..Len(t) : t[p] \in MarkerAtoms

C26_NeverAborts ==
    ret.tag # "Panic"

\* the indices of the \begin matches still open after toks, innermost last
RECURSIVE OpenBegins(_)
OpenBegins(toks) ==
    IF toks = <<>> THEN <<>>
    ELSE LET before == OpenBegins(SubSeq(toks, 1, Len(toks) - 1))
             s      == Last(toks)
         IN IF s \in BeginToks THEN Append(before, Len(toks))
            ELSE IF /\ s \in EndToks /\ before # <<>>
                    /\ NameOf(toks[Top(before)]) = NameOf(s)
            THEN SubSeq(before, 1, Len(before) - 1)
            ELSE before

\* C27: the value recorded for a \label scanned while the innermost open
\* environment is a numbered theorem T is the number written in the marker
\* of T itself, also when other numbered theorems were opened and closed
\* inside T before the \label.
C27_LabelOfContainer ==
    ( /\ ret.tag = "None" /\ input # <<>>
      /\ Last(input) \in LabelToks
      /\ env_stack # <<>>
      /\ Top(env_stack) \in DOMAIN theorems
      /\ theorems[Top(env_stack)].numbered )
    => LET b == Top(OpenBegins(input))
           n == NameOf(Last(input))
       IN result[b] = <<"\\textbf{", theorems[Top(env_stack)].label, " ",
                        theorem_labels[n], "}. ">>

(***************************************************************************)
(* Further claims about run_with_timeout                                   *)
(***************************************************************************)
\* C28: on every return of run_with_timeout after a successful spawn the
\* spawned child is no longer running.
C28_NoLiveChild ==
    (pc = "done" /\ child.state # "none") => ~Running(child)

Polling == pc \in {"check", "try_wait", "sleep", "read"}

\* C29: when the parent polls, its end of the child's standard input is
\* closed, with or without input text, so that the child sees
\* end-of-input; a child that reads to end-of-input and then exits at once
\* is reported by its exit status, not as a timeout.
C29_EndOfInputBeforePolling ==
    /\ Polling => ~pipes.stdin_open
    /\ ( /\ pc = "done" /\ child.state # "none"
         /\ call.prog.reads /\ call.prog.exits /\ call.prog.prompt
         /\ call.prog.outLen = 0 /\ call.prog.errLen = 0 )
       => ~( shret.tag = "Err" /\ shret.val[1] = "Timeout after " )

(***************************************************************************)
(* Balance of the wrappers written by the Markdown preprocessors           *)
(***************************************************************************)
\* the wrapper lines of an output, as tags
WrapperTag(line) ==
    IF line = <<>> THEN "none"
    ELSE IF line[1] = "<div class=\"collapse\" id=\"" THEN "collapse"
    ELSE IF line = <<"  <div class=\"card card-body\">">> THEN "body"
    ELSE IF line[1] = "<div class=\"card " THEN "card"
    ELSE IF line = <<"  </div>">> THEN "end-inner"
    ELSE IF line = <<"</div>">> THEN "end"
    ELSE "none"

IsWrapperLine(line) == WrapperTag(line) # "none"

\* the tags of w repeat the pattern cycle from its start to its end
Cycles(w, cycle) ==
    /\ Len(w) % Len(cycle) = 0
    /\ \A i \in 1..Len(w) :
          WrapperTag(w[i]) = cycle[((i - 1) % Len(cycle)) + 1]

\* C30: in the output of preprocess_expandables and of preprocess_cards
\* every opened wrapper is closed exactly once, before the next one opens,
\* one wrapper per opening line, also when the input ends before the
\* closing fence or with the opening line.
C30_BalancedWrappers ==
    /\ Ran("preprocess_expandables") =>
          LET w == SelectSeq(md_out[1].out, IsWrapperLine)
          IN /\ Cycles(w, <<"collapse", "body", "end-inner", "end">>)
             /\ Len(w) = 4 * Len(OpeningLines(md, 1, "expandable", 2))
    /\ Ran("preprocess_cards") =>
          LET w == SelectSeq(md_out[1].out, IsWrapperLine)
          IN /\ Cycles(w, <<"card", "end-inner">>)
             /\ Len(w) = 2 * Len(OpeningLines(md, 1, "card", 1))

C30_Witness ==
    /\ Ran("preprocess_expandables")
    /\ md = << <<"Body">>, <<":::", "expandable">> >>
    /\ md_out[1].out =
         << <<"Body">>, <<>>, <<>>,
            <<"<div class=\"collapse\" id=\"", "expand-", "1", "\">">>,
            <<"  <div class=\"card card-body\">">>,
            <<"  </div>">>, <<"</div>">> >>

====
